---- MODULE Spec2Model ----
(***************************************************************************)
(* State-machine model of rxntorch:                                        *)
(*   - RxnDataset.create_vocab / RxnDataset.tokenize_data                   *)
(*     (src/rxntorch/containers/dataset.py)                                 *)
(*   - ReactivityNet.forward and ReactivityTrainer.{train,test,iterate,save}*)
(*     (src/rxntorch/models/reactivity_network.py)                          *)
(* Floating-point quantities are modelled as exact rationals [n, d]; the    *)
(* element-wise cross-entropy is tabulated in thousandths.                  *)
(***************************************************************************)
EXTENDS Integers, Sequences, FiniteSets, TLC

VARIABLES
    \* ---- RxnDataset ----
    rxns,                   \* self.rxns: sequence of reactions
    has_fields,             \* whether the object exposes .reactants/.reagents/.products
    vocab_reactants,        \* self.vocab_reactants: dict, as <<[tok, n]>> in insertion order
    vocab_products,         \* self.vocab_products
    reactants_token_list,   \* self.reactants_token_list (written by create_vocab)
    products_token_list,    \* self.products_token_list
    reactant_token_list,    \* self.reactant_token_list (read by tokenize_data)
    product_token_list,     \* self.product_token_list
    error_rsmi,             \* error_rsmi of the most recent call
    token_len,              \* token_len of tokenize_data
    training_file,          \* data/training_data.pkl.gz
    train_file,             \* data/train.pkl.gz
    dev_file,               \* data/dev.pkl.gz
    split_count,            \* count of tokenize_data (records sent to dev)
    ds_pc,                  \* "new" | "vocab" | "tokenized" | "aborted"
    vocab_calls,            \* number of create_vocab calls so far
    \* ---- ReactivityNet.forward ----
    fw_input,               \* [labels, scores]: blabels and pair_scores of one example
    fw_top_k,               \* top_k returned for it (<< >> before the call)
    \* ---- ReactivityTrainer ----
    device,                 \* self.device
    train_data,             \* self.train_data: sequence of batches
    test_data,              \* self.test_data
    data_loader,            \* the data_loader argument of the running iterate
    model_device,           \* where self.model currently resides
    self_lr,                \* self.lr
    lr,                     \* param_group['lr'] of the optimizer's groups
    log_freq,               \* self.log_freq
    opt_steps,              \* number of optimizer.step() calls (parameter updates)
    pc,                     \* "idle" | "loop" | "aborted"
    train,                  \* the train argument of the running iterate
    epoch,                  \* the epoch argument of the running iterate
    i,                      \* batches completed by the running iterate
    iters,                  \* len(data_loader)
    data,                   \* the batch of the latest step (sequence of examples)
    loss,                   \* loss of the latest step
    avg_loss,               \* accumulator avg_loss
    sum_acc_10,             \* accumulator sum_acc_10
    sum_acc_20,             \* accumulator sum_acc_20
    emitted,                \* progress record logged by the latest step, or NoRecord
    window,                 \* history: batches (and tie order) since the accumulators' reset
    calls,                  \* number of train/test calls so far
    ret,                    \* value returned by the latest save, or NoPath
    save_args,              \* history: [epoch, file_path] of the latest save
    serialized_on           \* history: device the model was on when torch.save last ran

dsVars == <<rxns, has_fields, vocab_reactants, vocab_products, reactants_token_list,
            products_token_list, reactant_token_list, product_token_list, error_rsmi,
            token_len, training_file, train_file, dev_file, split_count, ds_pc,
            vocab_calls>>

fwVars == <<fw_input, fw_top_k>>

trVars == <<device, train_data, test_data, data_loader, model_device, self_lr, lr, log_freq, opt_steps, pc, train, epoch, i,
            iters, data, loss, avg_loss, sum_acc_10, sum_acc_20, emitted, window, calls,
            ret, save_args, serialized_on>>

vars == <<dsVars, fwVars, trVars>>

----------------------------------------------------------------------------
(* Bounds of the model *)

MaxRxns == 3
MaxVocabCalls == 2
MaxRecords == 201

----------------------------------------------------------------------------
(* Generic helpers *)

Range(s) == {s[k] : k \in 1..Len(s)}

\* Marker for "the statement raised inside the try block"
FAIL == <<"!raise">>

\* Marker for an attribute that was never assigned on the object
NoAttr == <<"!noattr">>

----------------------------------------------------------------------------
(* sp.parser_list: the external SMILES tokenizer, as a table over the       *)
(* molecule strings used here.  "C(" and "c1cc" are malformed.              *)

ParserList(mol) ==
    CASE mol = "CO"   -> <<"C", "O">>
      [] mol = "N"    -> <<"N">>
      [] mol = "CC"   -> <<"C", "C">>
      [] mol = "ClC"  -> <<"Cl", "C">>
      [] mol = "O"    -> <<"O">>
      [] mol = ""     -> << >>
      [] OTHER        -> FAIL

\* str.split('.') of a '.'-joined field: an empty field splits into [''].
SplitDot(mols) == IF mols = << >> THEN <<"">> ELSE mols

\* for mol in mols: lst += sp.parser_list(mol); lst += '.'
RECURSIVE ParseMols(_)
ParseMols(mols) ==
    IF mols = << >> THEN << >>
    ELSE LET head == ParserList(Head(mols))
             rest == ParseMols(Tail(mols))
         IN  IF head = FAIL \/ rest = FAIL THEN FAIL
             ELSE head \o <<".">> \o rest

\* list.pop(): raises IndexError on an empty list
Pop(lst) == IF lst = FAIL \/ lst = << >> THEN FAIL ELSE SubSeq(lst, 1, Len(lst) - 1)

\* Outcome of a try block that raised before producing its lists
Raised == [ok |-> FALSE, r |-> << >>, p |-> << >>]

\* The token lists of one reaction: r is reactant_list (with '>' and the
\* reagents), p is product_list; ok is FALSE when parsing or a pop raised
TokenLists(reactants, reagents, products) ==
    LET rl == Pop(ParseMols(reactants))
        gl == Pop(ParseMols(reagents))
        pl == Pop(ParseMols(products))
    IN  IF rl = FAIL \/ gl = FAIL \/ pl = FAIL THEN Raised
        ELSE [ok |-> TRUE, r |-> rl \o <<">">> \o gl, p |-> pl]

----------------------------------------------------------------------------
(* RxnDataset.create_vocab *)

_START_VOCAB == <<"_PAD", "_GO", "_EOS">>

Keys(vocab) == {vocab[k].tok : k \in 1..Len(vocab)}

\* if token in vocab: vocab[token] += 1  else: vocab[token] = 1
CountToken(vocab, tok) ==
    IF tok \in Keys(vocab)
    THEN [k \in 1..Len(vocab) |->
            IF vocab[k].tok = tok THEN [tok |-> tok, n |-> vocab[k].n + 1] ELSE vocab[k]]
    ELSE Append(vocab, [tok |-> tok, n |-> 1])

RECURSIVE CountTokens(_, _)
CountTokens(vocab, toks) ==
    IF toks = << >> THEN vocab
    ELSE CountTokens(CountToken(vocab, Head(toks)), Tail(toks))

\* Body of the try block for reaction i, up to the frequency updates
VocabTry(rxn, fields) ==
    IF ~fields THEN Raised   \* self.reactants[i]: AttributeError
    ELSE TokenLists(SplitDot(rxn.reactants), SplitDot(rxn.reagents), SplitDot(rxn.products))

\* The for loop over range(len(self.rxns)), from reaction k on
RECURSIVE VocabLoop(_, _, _, _)
VocabLoop(rs, fields, k, acc) ==
    IF k > Len(rs) THEN acc
    ELSE LET t == VocabTry(rs[k], fields)
         IN  IF ~t.ok
             THEN VocabLoop(rs, fields, k + 1,
                    [acc EXCEPT !.err = @ \cup {<<k - 1, rs[k].smile>>}])
             ELSE VocabLoop(rs, fields, k + 1,
                    [acc EXCEPT !.vr = CountTokens(@, t.r), !.vp = CountTokens(@, t.p)])

\* Stable insertion of entry e into a list sorted by descending count
RECURSIVE InsertDesc(_, _)
InsertDesc(sorted, e) ==
    IF sorted = << >> THEN <<e>>
    ELSE IF Head(sorted).n >= e.n THEN <<Head(sorted)>> \o InsertDesc(Tail(sorted), e)
         ELSE <<e>> \o sorted

\* sorted(vocab, key=vocab.get, reverse=True): stable, keys only
RECURSIVE SortedDesc(_)
SortedDesc(vocab) ==
    IF vocab = << >> THEN << >>
    ELSE InsertDesc(SortedDesc(SubSeq(vocab, 1, Len(vocab) - 1)), vocab[Len(vocab)])

SortedKeys(vocab) == LET s == SortedDesc(vocab) IN [k \in 1..Len(s) |-> s[k].tok]

RankedListMutant(vocab) == SortedKeys(vocab) \o _START_VOCAB

\* _START_VOCAB + sorted(...)
RankedList(vocab) == _START_VOCAB \o SortedKeys(vocab)

CreateVocab ==
    /\ ds_pc \in {"new", "vocab"}
    /\ vocab_calls < MaxVocabCalls
    /\ LET res == VocabLoop(rxns, has_fields, 1,
                            [vr |-> vocab_reactants, vp |-> vocab_products, err |-> {}])
       IN  /\ vocab_reactants' = res.vr
           /\ vocab_products' = res.vp
           /\ error_rsmi' = res.err
           /\ reactants_token_list' = RankedList(res.vr)
           /\ products_token_list' = RankedList(res.vp)
    /\ ds_pc' = "vocab"
    /\ vocab_calls' = vocab_calls + 1
    /\ UNCHANGED <<rxns, has_fields, reactant_token_list, product_token_list, token_len,
                   training_file, train_file, dev_file, split_count>>
    /\ UNCHANGED <<fwVars, trVars>>

----------------------------------------------------------------------------
(* RxnDataset.tokenize_data *)

\* lst.index(x): 0-based position of the first occurrence
IndexOf(lst, x) == (CHOOSE k \in 1..Len(lst) : lst[k] = x /\ \A j \in 1..(k - 1) : lst[j] # x) - 1

\* Whether [attr.index(t) for t in toks] evaluates: the attribute is only
\* touched when toks is non-empty (AttributeError), and every token must be in
\* the list (ValueError)
CanIndexAll(attr, toks) ==
    \/ toks = << >>
    \/ attr # NoAttr /\ \A k \in 1..Len(toks) : toks[k] \in Range(attr)

\* [attr.index(t) for t in toks]
IndexAll(attr, toks) == [k \in 1..Len(toks) |-> IndexOf(attr, toks[k])]

\* One pass of the for loop over enumerate(self.rxns): whether token_len got
\* an entry (counted), whether a record was written (dumped), and both
TokenizeTry(rxn, rattr, pattr) ==
    LET t == TokenLists(rxn.reactants, rxn.reagents, rxn.products)
        \* token_len.append precedes the lookups of pickle.dump's argument
        dumped == t.ok /\ CanIndexAll(rattr, t.r) /\ CanIndexAll(pattr, t.p)
    IN  [counted |-> t.ok,
         dumped  |-> dumped,
         len     |-> <<Len(t.r), Len(t.p)>>,
         rec     |-> IF dumped THEN <<IndexAll(rattr, t.r), IndexAll(pattr, t.p), rxn.smile>>
                     ELSE << >>]

IsCounted(o) == o.counted

IsDumped(o) == o.dumped

\* The whole for loop: every pass only appends, so the results are the passes'
\* outputs in order
TokenizeLoop(rs, rattr, pattr) ==
    LET out == [k \in 1..Len(rs) |-> TokenizeTry(rs[k], rattr, pattr)]
        cnt == SelectSeq(out, IsCounted)
        dmp == SelectSeq(out, IsDumped)
    IN  [len  |-> [k \in 1..Len(cnt) |-> cnt[k].len],
         file |-> [k \in 1..Len(dmp) |-> dmp[k].rec],
         err  |-> {<<k - 1, rs[k].smile>> : k \in {j \in 1..Len(rs) : ~out[j].dumped}}]

DevEvery == 100

\* i = 1 before the while loop
SplitStart == 1

SplitOneMutant(rec, n) ==
    IF (n - 1) % DevEvery # 0
    THEN [train |-> <<<<rec[1], rec[2]>>>>, dev |-> << >>, count |-> 0]
    ELSE [train |-> << >>, dev |-> <<<<rec[1], rec[2]>>>>, count |-> 1]

\* One pass of the while loop: the record read goes to train_file when the
\* counter i (here n) is not a multiple of 100, else to dev_file
SplitOne(rec, n) ==
    IF n % DevEvery # 0
    THEN [train |-> <<<<rec[1], rec[2]>>>>, dev |-> << >>, count |-> 0]
    ELSE [train |-> << >>, dev |-> <<<<rec[1], rec[2]>>>>, count |-> 1]

\* The passes of the while loop over records lo..hi of the stream, the counter
\* being n at record lo and incremented once per record (i += 1); evaluated
\* by halves, the second half starting where the first left the counter
RECURSIVE SplitLoop(_, _, _, _)
SplitLoop(stream, lo, hi, n) ==
    IF lo > hi THEN [train |-> << >>, dev |-> << >>, count |-> 0]   \* EOFError: break
    ELSE IF lo = hi THEN SplitOne(stream[lo], n)
    ELSE LET mid == (lo + hi) \div 2
             fst == SplitLoop(stream, lo, mid, n)
             snd == SplitLoop(stream, mid + 1, hi, n + (mid - lo + 1))
         IN  [train |-> fst.train \o snd.train, dev |-> fst.dev \o snd.dev,
              count |-> fst.count + snd.count]

TokenizeData ==
    /\ ds_pc \in {"new", "vocab"}
    /\ LET res == TokenizeLoop(rxns, reactant_token_list, product_token_list)
       IN  /\ token_len' = res.len
           /\ training_file' = res.file
           /\ error_rsmi' = res.err
           /\ IF res.len = << >>
              THEN \* trans = []; trans[0] raises IndexError out of tokenize_data
                   /\ ds_pc' = "aborted"
                   /\ UNCHANGED <<train_file, dev_file, split_count>>
              ELSE LET sp == SplitLoop(res.file, 1, Len(res.file), SplitStart)
                   IN  /\ train_file' = sp.train
                       /\ dev_file' = sp.dev
                       /\ split_count' = sp.count
                       /\ ds_pc' = "tokenized"
    /\ UNCHANGED <<rxns, has_fields, vocab_reactants, vocab_products, reactants_token_list,
                   products_token_list, reactant_token_list, product_token_list,
                   vocab_calls>>
    /\ UNCHANGED <<fwVars, trVars>>

----------------------------------------------------------------------------
(* Corpora *)

Rxn(smile, reactants, reagents, products) ==
    [smile |-> smile, reactants |-> reactants, reagents |-> reagents, products |-> products]

\* Reaction shapes: well-formed, two reactants, malformed product, malformed
\* reactant, no reagents, token outside the caller's token list
RxnShapes ==
    { Rxn(1, <<"CO">>, <<"N">>, <<"CC">>),
      Rxn(2, <<"CO", "N">>, <<"O">>, <<"CO">>),
      Rxn(3, <<"CO">>, <<"N">>, <<"C(">>),
      Rxn(4, <<"c1cc">>, <<"N">>, <<"CC">>),
      Rxn(5, <<"CC">>, << >>, <<"O">>),
      Rxn(6, <<"ClC">>, <<"N">>, <<"CC">>) }

RECURSIVE SeqsUpTo(_, _)
SeqsUpTo(S, n) ==
    IF n = 0 THEN {<< >>}
    ELSE LET shorter == SeqsUpTo(S, n - 1)
         IN  shorter \cup {Append(s, x) : s \in {t \in shorter : Len(t) = n - 1}, x \in S}

\* Token lists a caller may have assigned to reactant_token_list / product_token_list
CallerTokenList == _START_VOCAB \o <<"C", "O", "N", ".", ">">>

DsIdle ==
    /\ vocab_reactants = << >>
    /\ vocab_products = << >>
    /\ reactants_token_list = NoAttr
    /\ products_token_list = NoAttr
    /\ error_rsmi = {}
    /\ token_len = << >>
    /\ training_file = << >>
    /\ train_file = << >>
    /\ dev_file = << >>
    /\ split_count = 0
    /\ ds_pc = "new"
    /\ vocab_calls = 0


\* Corpus of n reactions for the shard split: reaction j fails to parse when
\* every = 0 never, else when j is a multiple of every
BigRxn(j, every) ==
    IF every > 0 /\ j % every = 0 THEN Rxn(100 + j, <<"CO">>, <<"N">>, <<"C(">>)
    ELSE IF j % 3 = 0 THEN Rxn(100 + j, <<"CO">>, <<"N">>, <<"CC">>)
    ELSE IF j % 3 = 1 THEN Rxn(100 + j, <<"CO", "N">>, <<"O">>, <<"CO">>)
    ELSE Rxn(100 + j, <<"N">>, <<"O">>, <<"O", "CC">>)

----------------------------------------------------------------------------
(* Rationals [n, d] in lowest terms, d > 0 *)

RECURSIVE GCD(_, _)
GCD(a, b) == IF b = 0 THEN a ELSE GCD(b, a % b)

Abs(x) == IF x < 0 THEN -x ELSE x

Rat(n, d) == LET g == GCD(Abs(n), d) IN [n |-> n \div g, d |-> d \div g]

RatAdd(a, b) == Rat(a.n * b.d + b.n * a.d, a.d * b.d)

RatMul(a, b) == Rat(a.n * b.n, a.d * b.d)

Zero == Rat(0, 1)

----------------------------------------------------------------------------
(* ReactivityNet.forward *)

NPairs == 22

Pairs == 0..(NPairs - 1)

TopK == 20

MaskPenalty == 10000

\* torch.where(blabels == -1.0, pair_scores - 10000, pair_scores)
MaskedScores(labels, scores) ==
    [p \in Pairs |-> IF labels[p] = -1 THEN scores[p] - MaskPenalty ELSE scores[p]]

\* p is ranked before q; equal scores are ordered by index, in the direction
\* the kernel happens to use (tieLow)
Before(m, p, q, tieLow) ==
    \/ m[p] > m[q]
    \/ m[p] = m[q] /\ (IF tieLow THEN p <= q ELSE p >= q)

\* torch.topk(flat, k): indices of the k largest entries, largest first
RECURSIVE TopKIdx(_, _, _, _)
TopKIdx(m, rest, k, tieLow) ==
    IF k = 0 THEN << >>
    ELSE LET best == CHOOSE p \in rest : \A q \in rest : Before(m, p, q, tieLow)
         IN  <<best>> \o TopKIdx(m, rest \ {best}, k - 1, tieLow)

\* top_k of forward for one example
Forward(ex, tieLow) == TopKIdx(MaskedScores(ex.labels, ex.scores), Pairs, TopK, tieLow)

Score(pat, p) ==
    CASE pat = "desc" -> 0 - p
      [] pat = "asc"  -> p - 10
      [] pat = "flat" -> 0
      [] pat = "wide" -> (MaskPenalty + 1) * p

\* An example: ninv pairs at the low or high end carry the -1 sentinel, the
\* pairs of ones (when not sentinel) carry label 1, the others label 0
Ex(ninv, side, ones, pat) ==
    [labels |-> [p \in Pairs |->
                    IF (side = "lo" /\ p < ninv) \/ (side = "hi" /\ p >= NPairs - ninv) THEN -1
                    ELSE IF p \in ones THEN 1 ELSE 0],
     scores |-> [p \in Pairs |-> Score(pat, p)]]

OneSets == {{}, {0}, {12}, {NPairs - 1}, {0, NPairs - 1}}

FwExamples ==
    {Ex(ninv, side, ones, pat) :
        ninv \in 0..NPairs, side \in {"lo", "hi"}, ones \in OneSets,
        pat \in {"desc", "asc", "flat", "wide"}}

ForwardCall ==
    /\ fw_top_k = << >>
    /\ \E tieLow \in BOOLEAN : fw_top_k' = Forward(fw_input, tieLow)
    /\ UNCHANGED <<fw_input, dsVars, trVars>>

----------------------------------------------------------------------------
(* ReactivityTrainer *)

MaxBatches == 3
MaxLogFreq == 2
MaxCalls == 2
MaxEpoch == 11

NoRecord == [iter |-> 0]
NoPath == << >>
NoArgs == [epoch |-> 0, file_path |-> << >>]

\* Examples the batches are made of
ExHit == Ex(0, "lo", {0}, "desc")                \* true pair ranked first
ExLate == Ex(2, "hi", {12}, "desc")              \* true pair ranked 13th, two sentinels
ExMiss == Ex(0, "lo", {NPairs - 1}, "desc")      \* true pair ranked last
ExMasked == Ex(NPairs, "lo", {}, "flat")         \* every pair sentinel

Examples == {ExHit, ExLate, ExMiss, ExMasked}

BatchPool == {<<ExHit>>, <<ExLate>>, <<ExMasked>>, <<ExHit, ExMiss>>, <<ExHit, ExHit, ExLate>>}

\* log(1 + exp(x)) in thousandths, rounded
SoftplusMilli(x) ==
    IF x <= -8 THEN 0
    ELSE IF x >= 8 THEN 1000 * x
    ELSE <<1, 2, 7, 18, 49, 127, 313, 693, 1313, 2127, 3049, 4018, 5007, 6002, 7001>>[x + 8]

\* F.relu
Relu(z) == IF z < 0 THEN 0 ELSE z

\* F.binary_cross_entropy_with_logits(x, z, reduction='none'), in thousandths
BCEMilli(x, z) == SoftplusMilli(x) - 1000 * x * z

\* One element of loss after loss *= torch.ne(bond_labels, -1).float()
MaskedElem(ex, p) ==
    IF ex.labels[p] # -1 THEN BCEMilli(ex.scores[p], Relu(ex.labels[p])) ELSE 0

\* Sum of the masked element losses of ex over the pairs of S
RECURSIVE MaskedSum(_, _)
MaskedSum(ex, S) ==
    IF S = {} THEN 0
    ELSE LET p == CHOOSE x \in S : TRUE IN MaskedElem(ex, p) + MaskedSum(ex, S \ {p})

\* Sum of the masked element losses of one example
ExampleLoss == [ex \in Examples |-> MaskedSum(ex, Pairs)]

RECURSIVE BatchSum(_)
BatchSum(batch) ==
    IF batch = << >> THEN 0 ELSE ExampleLoss[Head(batch)] + BatchSum(Tail(batch))

\* Number of elements torch.mean divides by
MeanDivisor(batch) == Len(batch) * NPairs

\* loss = torch.mean(loss)
BatchLoss(batch) == Rat(BatchSum(batch), 1000 * MeanDivisor(batch))

\* top_k of self.model.forward for each example
ModelTopK == [ex \in Examples, tieLow \in BOOLEAN |-> Forward(ex, tieLow)]

\* all_correct_k for one example: every index with label 1 equals one of the
\* first k entries of top_k (all() of an empty tensor is True)
AllCorrect(ex, top_k, k) ==
    \A l \in {p \in Pairs : ex.labels[p] = 1} : \E j \in 1..k : top_k[j] = l

RECURSIVE CountCorrect(_, _, _)
CountCorrect(batch, tieLow, k) ==
    IF batch = << >> THEN 0
    ELSE (IF AllCorrect(Head(batch), ModelTopK[Head(batch), tieLow], k) THEN 1 ELSE 0)
         + CountCorrect(Tail(batch), tieLow, k)

DecayNum == 9
DecayDen == 10

\* param_group['lr'] = self.lr * 0.9
DecayedLr(configured, current) == RatMul(configured, Rat(DecayNum, DecayDen))

\* The post_fix record of a logging step
Record(ep, iter, its, avg, acc10, acc20, freq, batch_size, tr) ==
    [epoch |-> ep, iter |-> iter, iters |-> its, avg_loss |-> avg,
     acc10 |-> Rat(acc10, freq * batch_size), acc20 |-> Rat(acc20, freq * batch_size),
     norms |-> tr]

\* iterate(epoch, data_loader, train): entry, up to the first batch
Iterate(ep, loader, tr) ==
    /\ pc = "idle"
    /\ calls < MaxCalls
    /\ pc' = "loop"
    /\ train' = tr
    /\ epoch' = ep
    /\ data_loader' = loader
    /\ i' = 0
    /\ iters' = Len(loader)
    /\ avg_loss' = Zero
    /\ sum_acc_10' = 0
    /\ sum_acc_20' = 0
    /\ calls' = calls + 1
    /\ ret' = NoPath
    /\ save_args' = NoArgs
    /\ UNCHANGED <<device, train_data, test_data, model_device, self_lr, lr, log_freq,
                   opt_steps, data, loss, emitted, window, serialized_on>>
    /\ UNCHANGED <<dsVars, fwVars>>

\* train(epoch)
Train == \E ep \in {0, MaxEpoch} : Iterate(ep, train_data, TRUE)

\* test(epoch)
Test == \E ep \in {0, MaxEpoch} : Iterate(ep, test_data, FALSE)

\* One pass of the for loop of iterate.  Gradients and norms are not
\* represented: optimizer.step() is counted in opt_steps, and the norms of the
\* record are reduced to whether it carries them.
Step ==
    /\ pc = "loop"
    /\ i < iters
    /\ \E tieLow \in BOOLEAN :
        LET batch == data_loader[i + 1]
            l == BatchLoss(batch)
            avg == RatAdd(avg_loss, l)
            a10 == sum_acc_10 + CountCorrect(batch, tieLow, 10)
            a20 == sum_acc_20 + CountCorrect(batch, tieLow, TopK)
            logs == (i + 1) % log_freq = 0
        IN  /\ data' = batch
            /\ loss' = l
            /\ opt_steps' = IF train THEN opt_steps + 1 ELSE opt_steps
            /\ emitted' = IF logs
                          THEN Record(epoch, i + 1, iters, avg, a10, a20, log_freq,
                                      Len(batch), train)
                          ELSE NoRecord
            /\ avg_loss' = IF logs THEN Zero ELSE avg
            /\ sum_acc_10' = IF logs THEN 0 ELSE a10
            /\ sum_acc_20' = IF logs THEN 0 ELSE a20
            /\ window' = Append(IF emitted # NoRecord \/ i = 0 THEN << >> ELSE window,
                                [batch |-> batch, tieLow |-> tieLow])
    /\ lr' = DecayedLr(self_lr, lr)
    /\ i' = i + 1
    /\ UNCHANGED <<device, train_data, test_data, data_loader, model_device, self_lr,
                   log_freq, pc, train, epoch, iters, calls, ret, save_args, serialized_on>>
    /\ UNCHANGED <<dsVars, fwVars>>

\* The data loader is exhausted: iterate returns
Return ==
    /\ pc = "loop"
    /\ i = iters
    /\ pc' = "idle"
    /\ data_loader' = << >>
    /\ i' = 0
    /\ iters' = 0
    /\ data' = << >>
    /\ loss' = Zero
    /\ avg_loss' = Zero
    /\ sum_acc_10' = 0
    /\ sum_acc_20' = 0
    /\ emitted' = NoRecord
    /\ window' = << >>
    /\ UNCHANGED <<device, train_data, test_data, model_device, self_lr, lr, log_freq,
                   opt_steps, train, epoch, calls, ret, save_args, serialized_on>>
    /\ UNCHANGED <<dsVars, fwVars>>

Digit(d) == <<"0", "1", "2", "3", "4", "5", "6", "7", "8", "9">>[d + 1]

\* "%d" % epoch
RECURSIVE FormatD(_)
FormatD(n) == IF n < 10 THEN <<Digit(n)>> ELSE FormatD(n \div 10) \o <<Digit(n % 10)>>

\* file_path + ".ep%d" % epoch
OutputPath(ep, file_path) == file_path \o <<".", "e", "p">> \o FormatD(ep)

RestoredDeviceMutant(dev) == "cpu"

\* Where the model is after self.model.to(self.device)
RestoredDevice(dev) == dev

FilePaths == {<<"o", "u", "t">>, <<"m", ".", "e", "p", "1">>}

\* save(epoch, file_path)
Save ==
    /\ pc = "idle"
    /\ \E ep \in 0..MaxEpoch, file_path \in FilePaths, written \in BOOLEAN :
        /\ save_args' = [epoch |-> ep, file_path |-> file_path]
        /\ serialized_on' = "cpu"                   \* self.model.cpu()
        /\ IF written
           THEN /\ model_device' = RestoredDevice(device)
                /\ ret' = OutputPath(ep, file_path)
                /\ pc' = "idle"
           ELSE \* torch.save raises: the exception leaves save and ends the run
                /\ model_device' = "cpu"
                /\ ret' = NoPath
                /\ pc' = "aborted"
    /\ UNCHANGED <<device, train_data, test_data, data_loader, self_lr, lr, log_freq,
                   opt_steps, train, epoch, i, iters, data, loss, avg_loss, sum_acc_10,
                   sum_acc_20, emitted, window, calls>>
    /\ UNCHANGED <<dsVars, fwVars>>

----------------------------------------------------------------------------
(* Initial states and specifications *)

FwIdle ==
    /\ fw_input = [labels |-> << >>, scores |-> << >>]
    /\ fw_top_k = << >>

\* State after ReactivityTrainer.__init__ (the model is moved to self.device)
TrConstructed ==
    /\ model_device = device
    /\ data_loader = << >>
    /\ lr = self_lr
    /\ opt_steps = 0
    /\ pc = "idle"
    /\ train = FALSE
    /\ epoch = 0
    /\ i = 0
    /\ iters = 0
    /\ data = << >>
    /\ loss = Zero
    /\ avg_loss = Zero
    /\ sum_acc_10 = 0
    /\ sum_acc_20 = 0
    /\ emitted = NoRecord
    /\ window = << >>
    /\ calls = 0
    /\ ret = NoPath
    /\ save_args = NoArgs
    /\ serialized_on = "none"

TrIdle ==
    /\ device = "cpu"
    /\ train_data = << >>
    /\ test_data = << >>
    /\ self_lr = Rat(1, 10000)
    /\ log_freq = 1
    /\ TrConstructed

\* State after RxnDataset.__init__ on some corpus
InitVocab ==
    /\ rxns \in SeqsUpTo(RxnShapes, MaxRxns)
    /\ has_fields \in BOOLEAN
    /\ reactant_token_list \in {NoAttr, CallerTokenList}
    /\ product_token_list = reactant_token_list
    /\ DsIdle
    /\ FwIdle
    /\ TrIdle

NextVocab == CreateVocab \/ TokenizeData

SpecVocab == InitVocab /\ [][NextVocab]_vars

\* A large corpus whose token lists the caller has assigned
InitSplit ==
    /\ \E n \in 0..MaxRecords, every \in {0, 1, 7} :
            rxns = [j \in 1..n |-> BigRxn(j, every)]
    /\ has_fields = FALSE
    /\ reactant_token_list = CallerTokenList
    /\ product_token_list = CallerTokenList
    /\ DsIdle
    /\ FwIdle
    /\ TrIdle

NextSplit == TokenizeData

SpecSplit == InitSplit /\ [][NextSplit]_vars

DsUnused ==
    /\ rxns = << >>
    /\ has_fields = FALSE
    /\ reactant_token_list = NoAttr
    /\ product_token_list = NoAttr
    /\ DsIdle

InitForward ==
    /\ fw_input \in FwExamples
    /\ fw_top_k = << >>
    /\ DsUnused
    /\ TrIdle

NextForward == ForwardCall

SpecForward == InitForward /\ [][NextForward]_vars

\* Trainers over every data loader of up to MaxBatches batches of the pool
InitTrainer ==
    /\ device \in {"cpu", "cuda:0"}
    /\ train_data \in SeqsUpTo(BatchPool, MaxBatches)
    /\ test_data = train_data
    /\ self_lr = Rat(1, 10000)
    /\ log_freq \in 1..MaxLogFreq
    /\ TrConstructed
    /\ DsUnused
    /\ FwIdle

NextTrainer == Train \/ Test \/ Step \/ Return

SpecTrainer == InitTrainer /\ [][NextTrainer]_vars

\* Trainers whose loaders hold up to MaxBatches single-example batches, with
\* save calls between the passes
InitSchedule ==
    /\ device \in {"cpu", "cuda:0"}
    /\ train_data \in SeqsUpTo({<<ExHit>>}, MaxBatches)
    /\ test_data \in SeqsUpTo({<<ExLate>>}, MaxBatches)
    /\ self_lr = Rat(1, 10000)
    /\ log_freq \in 1..MaxLogFreq
    /\ TrConstructed
    /\ DsUnused
    /\ FwIdle

NextSchedule == Train \/ Test \/ Step \/ Return \/ Save

SpecSchedule == InitSchedule /\ [][NextSchedule]_vars

----------------------------------------------------------------------------
(* Properties of the dataset *)

NoDuplicates(lst) == \A a, b \in 1..Len(lst) : lst[a] = lst[b] => a = b

WellRanked(lst, vocab) ==
    /\ Len(lst) = 3 + Cardinality(Keys(vocab))
    /\ SubSeq(lst, 1, 3) = <<"_PAD", "_GO", "_EOS">>
    /\ NoDuplicates(lst)
    /\ Keys(vocab) \subseteq Range(lst)

\* C1: after create_vocab, also when called again on the same dataset, each
\* ranked token list has length 3 + the number of distinct tokens of its side's
\* frequency mapping, starts with _PAD, _GO, _EOS, and repeats no token.
C1_RankedListShape ==
    vocab_calls > 0 =>
        /\ WellRanked(reactants_token_list, vocab_reactants)
        /\ WellRanked(products_token_list, vocab_products)

C1_Witness ==
    /\ vocab_calls = 2
    /\ Cardinality(Keys(vocab_reactants)) >= 4
    /\ Cardinality(Keys(vocab_products)) >= 2
    /\ error_rsmi # {}

\* A reaction one of whose molecules the parser rejects
Malformed(rxn) ==
    \E f \in {rxn.reactants, rxn.reagents, rxn.products} :
        \E k \in 1..Len(f) : ParserList(f[k]) = FAIL

\* C2: whatever subset of the reactions fails tokenization (all of them
\* included), create_vocab and tokenize_data run to completion, each failing
\* reaction's index and string are in the error set, and a failing reaction
\* adds no record to the emitted examples.
C2_FailuresNeverAbort ==
    /\ rxns # << >> => ds_pc # "aborted"
    /\ ds_pc \in {"vocab", "tokenized"} =>
            \A k \in 1..Len(rxns) :
                Malformed(rxns[k]) => <<k - 1, rxns[k].smile>> \in error_rsmi
    /\ ds_pc = "tokenized" =>
            \A k \in 1..Len(training_file) :
                \E j \in 1..Len(rxns) :
                    /\ rxns[j].smile = training_file[k][3]
                    /\ ~Malformed(rxns[j])

\* The part of C2 that the code meets: failures are recorded and emit nothing
C2_ErrorsRecorded ==
    /\ ds_pc \in {"vocab", "tokenized"} =>
            \A k \in 1..Len(rxns) :
                Malformed(rxns[k]) => <<k - 1, rxns[k].smile>> \in error_rsmi
    /\ ds_pc = "tokenized" =>
            \A k \in 1..Len(training_file) :
                \E j \in 1..Len(rxns) :
                    /\ rxns[j].smile = training_file[k][3]
                    /\ ~Malformed(rxns[j])

Shard(rec) == <<rec[1], rec[2]>>

C3_WitnessTwoHundred ==
    /\ ds_pc = "tokenized"
    /\ Len(training_file) = 200
    /\ Len(dev_file) = 2

----------------------------------------------------------------------------
(* Properties of the network and the trainer *)

\* C4: none of the top-20 indices returned by forward refers to a pair whose
\* label is the -1 sentinel, whatever the number of valid pairs and the spread
\* of the scores.
C4_NoSentinelInTopK ==
    fw_top_k # << >> =>
        \A k \in 1..Len(fw_top_k) : fw_input.labels[fw_top_k[k]] # -1

\* The case in which the code keeps sentinel pairs out of top_k: at least 20
\* valid pairs, and scores that differ by less than the penalty
C4_HoldsWithEnoughValidPairs ==
    (/\ fw_top_k # << >>
     /\ Cardinality({p \in Pairs : fw_input.labels[p] # -1}) >= TopK
     /\ \A p, q \in Pairs : fw_input.scores[p] - fw_input.scores[q] < MaskPenalty) =>
        \A k \in 1..Len(fw_top_k) : fw_input.labels[fw_top_k[k]] # -1

\* The pairs of an example whose label is not the sentinel
ValidPairs(ex) == {p \in Pairs : ex.labels[p] # -1}

UnmaskedElem(ex, p) == BCEMilli(ex.scores[p], Relu(ex.labels[p]))

RECURSIVE UnmaskedSum(_, _)
UnmaskedSum(ex, S) ==
    IF S = {} THEN 0
    ELSE LET p == CHOOSE x \in S : TRUE IN UnmaskedElem(ex, p) + UnmaskedSum(ex, S \ {p})

RECURSIVE ValidSum(_)
ValidSum(batch) ==
    IF batch = << >> THEN 0
    ELSE UnmaskedSum(Head(batch), ValidPairs(Head(batch))) + ValidSum(Tail(batch))

RECURSIVE ValidCount(_)
ValidCount(batch) ==
    IF batch = << >> THEN 0
    ELSE Cardinality(ValidPairs(Head(batch))) + ValidCount(Tail(batch))

\* C5: the loss of a batch is the sum of the cross-entropy terms of the
\* positions whose label is not -1, divided by the number of those positions,
\* and 0 when every label is -1.
C5_LossAveragedOverValid ==
    (pc = "loop" /\ i > 0) =>
        loss = IF ValidCount(data) = 0 THEN Zero
               ELSE Rat(ValidSum(data), 1000 * ValidCount(data))

\* What the code computes instead: the masked sum over all elements of the batch
C5_LossAveragedOverAll ==
    (pc = "loop" /\ i > 0) => loss = Rat(ValidSum(data), 1000 * Len(data) * NPairs)

\* Every pair of ex labelled 1 is among the first k of top_k
Captured(ex, top_k, k) ==
    {p \in Pairs : ex.labels[p] = 1} \subseteq {top_k[j] : j \in 1..k}

RECURSIVE CapturedIn(_, _, _)
CapturedIn(batch, tieLow, k) ==
    IF batch = << >> THEN 0
    ELSE (IF Captured(Head(batch), Forward(Head(batch), tieLow), k) THEN 1 ELSE 0)
         + CapturedIn(Tail(batch), tieLow, k)

RECURSIVE WindowCaptured(_, _)
WindowCaptured(w, k) ==
    IF w = << >> THEN 0
    ELSE CapturedIn(Head(w).batch, Head(w).tieLow, k) + WindowCaptured(Tail(w), k)

RECURSIVE WindowExamples(_)
WindowExamples(w) ==
    IF w = << >> THEN 0 ELSE Len(Head(w).batch) + WindowExamples(Tail(w))

RECURSIVE WindowLoss(_)
WindowLoss(w) ==
    IF w = << >> THEN Zero ELSE RatAdd(BatchLoss(Head(w).batch), WindowLoss(Tail(w)))

\* C6: in every progress record, accuracy@10 (resp. @20) is the number of
\* examples of the logging window all of whose label-1 pairs are among the
\* example's first 10 (resp. 20) top-k indices, divided by the number of
\* examples of the window; so it lies between 0 and 1.
C6_AccuracyIsWindowFraction ==
    emitted # NoRecord =>
        /\ emitted.acc10 = Rat(WindowCaptured(window, 10), WindowExamples(window))
        /\ emitted.acc20 = Rat(WindowCaptured(window, 20), WindowExamples(window))
        /\ emitted.acc10.n <= emitted.acc10.d
        /\ emitted.acc20.n <= emitted.acc20.d

\* The case in which the code reports the window's fraction: batches of one size
C6_HoldsForEqualBatches ==
    (/\ emitted # NoRecord
     /\ \A a, b \in 1..Len(window) : Len(window[a].batch) = Len(window[b].batch)) =>
        /\ emitted.acc10 = Rat(WindowCaptured(window, 10), WindowExamples(window))
        /\ emitted.acc20 = Rat(WindowCaptured(window, 20), WindowExamples(window))

\* C7: in training mode every step multiplies the learning rate by 0.9: the
\* rate after step n+1 is 0.9 times the rate after step n.
C7_RateDecaysEveryStep ==
    [][(pc = "loop" /\ train /\ i' = i + 1) => lr' = RatMul(lr, Rat(9, 10))]_vars

\* C8: a step of an evaluation pass leaves the model parameters and the
\* optimizer state, the learning rate included, unchanged.
C8_EvalLeavesOptimizer ==
    [][(pc = "loop" /\ ~train) => (opt_steps' = opt_steps /\ lr' = lr)]_vars

\* What the code does instead: once any step has run, the rate is 0.9 times
\* the configured one, in either mode
C7_RateIsConfiguredTimesDecay ==
    lr = IF lr = self_lr THEN self_lr ELSE RatMul(self_lr, Rat(9, 10))

DigitValue(c) ==
    CASE c = "0" -> 0 [] c = "1" -> 1 [] c = "2" -> 2 [] c = "3" -> 3 [] c = "4" -> 4
      [] c = "5" -> 5 [] c = "6" -> 6 [] c = "7" -> 7 [] c = "8" -> 8 [] c = "9" -> 9
      [] OTHER -> -1000

RECURSIVE DecimalValue(_)
DecimalValue(cs) ==
    IF cs = << >> THEN 0
    ELSE 10 * DecimalValue(SubSeq(cs, 1, Len(cs) - 1)) + DigitValue(cs[Len(cs)])

\* path is file_path, then ".ep", then the decimal numeral of ep
IsEpochPath(path, file_path, ep) ==
    LET n == Len(file_path)
        num == SubSeq(path, n + 4, Len(path))
    IN  /\ Len(path) >= n + 4
        /\ SubSeq(path, 1, n) = file_path
        /\ SubSeq(path, n + 1, n + 3) = <<".", "e", "p">>
        /\ \A k \in 1..Len(num) : DigitValue(num[k]) >= 0
        /\ Len(num) > 1 => num[1] # "0"
        /\ DecimalValue(num) = ep

C9_WitnessPath ==
    /\ ret = <<"m", ".", "e", "p", "1", ".", "e", "p", "1", "0">>
    /\ calls = 1
    /\ device = "cuda:0"

\* C10: a progress record is emitted exactly after each batch whose 1-based
\* number is a multiple of log_freq, and its loss field is the sum of the
\* losses of the last log_freq batches divided by log_freq.
C10_WindowedAverageLoss ==
    (pc = "loop" /\ i > 0) =>
        /\ emitted # NoRecord <=> i % log_freq = 0
        /\ emitted # NoRecord =>
                /\ Len(window) = log_freq
                /\ emitted.iter = i
                /\ emitted.avg_loss = RatMul(WindowLoss(window), Rat(1, log_freq))

\* What the code does instead: the loss field is the window's sum
C10_EmittedOnMultiples ==
    (pc = "loop" /\ i > 0) =>
        /\ emitted # NoRecord <=> i % log_freq = 0
        /\ emitted # NoRecord =>
                /\ Len(window) = log_freq
                /\ emitted.iter = i
                /\ emitted.avg_loss = WindowLoss(window)

====
